---- MODULE Spec2Model ----
(***************************************************************************)
(* A model of youtube_audio_downloader: Downloader.download and the        *)
(* managers it drives (URLManager, FilesystemManager, YtDlpManager).       *)
(*                                                                         *)
(* Python strings are sequences of one-character strings, so that the      *)
(* regular expressions, the keyword classification of engine messages and  *)
(* pathlib's suffix handling are computed, not assumed.  A pathlib.Path is *)
(* the sequence of its components, the first being "/" when the path is    *)
(* absolute.  A Python None is the empty sequence where a string or a path *)
(* is expected.                                                            *)
(***************************************************************************)
EXTENDS Integers, Sequences, FiniteSets, TLC

\* ------------------------------------------------------------------------
\* Strings
\* ------------------------------------------------------------------------

None == <<>>

LowerLetters == {"a", "b", "c", "d", "e", "f", "g", "h", "i", "j", "k", "l", "m",
                 "n", "o", "p", "q", "r", "s", "t", "u", "v", "w", "x", "y", "z"}

UpperLetters == {"A", "B", "C", "D", "E", "F", "G", "H", "I", "J", "K", "L", "M",
                 "N", "O", "P", "Q", "R", "S", "T", "U", "V", "W", "X", "Y", "Z"}

Digits == {"0", "1", "2", "3", "4", "5", "6", "7", "8", "9"}

\* str.isspace() on the characters the inputs use.
Whitespace == {" ", "\t", "\n"}

LowerOfUpper ==
    [c \in UpperLetters |->
        CASE c = "A" -> "a" [] c = "B" -> "b" [] c = "C" -> "c" [] c = "D" -> "d"
          [] c = "E" -> "e" [] c = "F" -> "f" [] c = "G" -> "g" [] c = "H" -> "h"
          [] c = "I" -> "i" [] c = "J" -> "j" [] c = "K" -> "k" [] c = "L" -> "l"
          [] c = "M" -> "m" [] c = "N" -> "n" [] c = "O" -> "o" [] c = "P" -> "p"
          [] c = "Q" -> "q" [] c = "R" -> "r" [] c = "S" -> "s" [] c = "T" -> "t"
          [] c = "U" -> "u" [] c = "V" -> "v" [] c = "W" -> "w" [] c = "X" -> "x"
          [] c = "Y" -> "y" [] c = "Z" -> "z"]

\* str.lower()
Lower(s) == [i \in 1..Len(s) |-> IF s[i] \in UpperLetters THEN LowerOfUpper[s[i]] ELSE s[i]]

Min(S) == CHOOSE m \in S : \A n \in S : m <= n

Max(S) == CHOOSE m \in S : \A n \in S : m >= n

\* s[i:] begins with pat (i is 1-based).
StartsAt(s, i, pat) ==
    /\ i >= 1
    /\ i + Len(pat) - 1 <= Len(s)
    /\ \A k \in 1..Len(pat) : s[i + k - 1] = pat[k]

\* str.find(pat) + 1: the first position of pat in s, 0 when absent.
Find(s, pat) ==
    LET First(hits) == IF hits = {} THEN 0 ELSE Min(hits)
    IN  First({i \in 1..(Len(s) + 1) : StartsAt(s, i, pat)})

\* str.rfind(pat) + 1
RFind(s, pat) ==
    LET Last(hits) == IF hits = {} THEN 0 ELSE Max(hits)
    IN  Last({i \in 1..(Len(s) + 1) : StartsAt(s, i, pat)})

\* pat in s
Contains(s, pat) == Find(s, pat) > 0

\* The first position of a character of the set cs in s, 0 when absent.
FindAny(s, cs) ==
    LET First(hits) == IF hits = {} THEN 0 ELSE Min(hits)
    IN  First({i \in 1..Len(s) : s[i] \in cs})

\* s[i:] (i is 1-based)
From(s, i) == SubSeq(s, i, Len(s))

\* str.strip()
Strip(s) ==
    LET Between(keep) == IF keep = {} THEN <<>> ELSE SubSeq(s, Min(keep), Max(keep))
    IN  Between({i \in 1..Len(s) : s[i] \notin Whitespace})

RECURSIVE Split(_, _)
\* str.split(sep) for a one-character separator
Split(s, sep) ==
    LET At(i) == IF i = 0 THEN <<s>>
                 ELSE <<SubSeq(s, 1, i - 1)>> \o Split(From(s, i + 1), sep)
    IN  At(Find(s, <<sep>>))

\* ------------------------------------------------------------------------
\* url_manager.py
\* ------------------------------------------------------------------------

\* The character class [a-zA-Z0-9_-] of every pattern.
IdChars == LowerLetters \cup UpperLetters \cup Digits \cup {"_", "-"}

VIDEO_ID_LENGTH == 11

WATCH_LITERAL == <<"y", "o", "u", "t", "u", "b", "e", ".", "c", "o", "m", "/", "w", "a", "t", "c", "h", "?", "v", "=">>

SHORT_LITERAL == <<"y", "o", "u", "t", "u", ".", "b", "e", "/">>

EMBED_LITERAL == <<"y", "o", "u", "t", "u", "b", "e", ".", "c", "o", "m", "/", "e", "m", "b", "e", "d", "/">>

LEGACY_LITERAL == <<"y", "o", "u", "t", "u", "b", "e", ".", "c", "o", "m", "/", "v", "/">>

\* Each pattern is (?:https?://)?(?:www\.)?<literal>([a-zA-Z0-9_-]{11}): both
\* groups before the literal are optional and re.search scans every start, so a
\* pattern matches where its literal is followed by 11 class characters; the
\* list keeps the literals in the order of the source.
YOUTUBE_PATTERNS == <<WATCH_LITERAL, SHORT_LITERAL, EMBED_LITERAL, LEGACY_LITERAL>>

\* re.search(pattern, url): group(1) of the leftmost match, None without one.
ReSearch(literal, url) ==
    LET n == Len(literal)
        Group(hits) ==
            IF hits = {} THEN None
            ELSE SubSeq(url, Min(hits) + n, Min(hits) + n + VIDEO_ID_LENGTH - 1)
    IN  Group({i \in 1..Len(url) :
                  /\ StartsAt(url, i, literal)
                  /\ i + n + VIDEO_ID_LENGTH - 1 <= Len(url)
                  /\ \A k \in 0..(VIDEO_ID_LENGTH - 1) : url[i + n + k] \in IdChars})

\* _is_valid_video_id without the length test of line 62.
IsValidVideoId_AnyLength(video_id) ==
    /\ video_id # None
    /\ \A k \in 1..Len(video_id) : video_id[k] \in IdChars

\* URLManager._is_valid_video_id
IsValidVideoId(video_id) ==
    /\ video_id # None
    /\ Len(video_id) = VIDEO_ID_LENGTH
    /\ \A k \in 1..Len(video_id) : video_id[k] \in IdChars

YOUTUBE_HOST == <<"y", "o", "u", "t", "u", "b", "e", ".", "c", "o", "m">>

SchemeChars == LowerLetters \cup UpperLetters \cup Digits \cup {"+", "-", "."}

\* urllib.parse.urlparse(url): the netloc and the query.  The inputs hold no
\* '[' (urlparse raises ValueError on an unbalanced bracket, which lines 52-53
\* swallow).
UrlParse(url) ==
    LET Rest(colon) ==
            IF /\ colon > 1
               /\ url[1] \in LowerLetters \cup UpperLetters
               /\ \A i \in 1..(colon - 1) : url[i] \in SchemeChars
            THEN From(url, colon + 1) ELSE url
        Query(noFrag, qmark) == IF qmark = 0 THEN <<>> ELSE From(noFrag, qmark + 1)
        NoFrag(tail, hash) == IF hash = 0 THEN tail ELSE SubSeq(tail, 1, hash - 1)
        QueryOfNoFrag(noFrag) == Query(noFrag, Find(noFrag, <<"?">>))
        QueryOf(tail) == QueryOfNoFrag(NoFrag(tail, Find(tail, <<"#">>)))
        Netloc(afterNet, delim) ==
            [netloc |-> IF delim = 0 THEN afterNet ELSE SubSeq(afterNet, 1, delim - 1),
             query  |-> QueryOf(IF delim = 0 THEN <<>> ELSE From(afterNet, delim))]
        AfterNet(afterNet) == Netloc(afterNet, FindAny(afterNet, {"/", "?", "#"}))
        Parse(rest) ==
            IF StartsAt(rest, 1, <<"/", "/">>) THEN AfterNet(From(rest, 3))
            ELSE [netloc |-> <<>>, query |-> QueryOf(rest)]
    IN  Parse(Rest(Find(url, <<":">>)))

\* urllib.parse.unquote(s.replace('+', ' ')).  The inputs hold no '%', so no
\* percent-escape is there to decode.
Unquote(s) == [i \in 1..Len(s) |-> IF s[i] = "+" THEN " " ELSE s[i]]

\* urllib.parse.parse_qs(query)['v']: the values of the fields named v, in
\* order; a field without '=' or with a blank value is dropped.
ParseQsV(query) ==
    LET Named(f, eq) ==
            /\ eq > 0
            /\ Len(From(f, eq + 1)) > 0
            /\ Unquote(SubSeq(f, 1, eq - 1)) = <<"v">>
        ValueOf(f) == Unquote(From(f, Find(f, <<"=">>) + 1))
        FirstOf(fields, keep) ==
            IF keep = {} THEN <<>> ELSE <<ValueOf(fields[Min(keep)])>>
        Values(fields) ==
            FirstOf(fields, {i \in 1..Len(fields) : Named(fields[i], Find(fields[i], <<"=">>))})
    IN  Values(Split(query, "&"))

\* Lines 42-53: the query-parameter fallback.
QueryFallback(url) ==
    LET Param(vs) == IF vs # <<>> /\ IsValidVideoId(vs[1]) THEN vs[1] ELSE None
        Parsed(parsed) ==
            IF Contains(parsed.netloc, YOUTUBE_HOST) THEN Param(ParseQsV(parsed.query))
            ELSE None
    IN  Parsed(UrlParse(url))

RECURSIVE FirstPattern(_, _, _)
\* Lines 34-40: the first pattern of the list, from index k on, that matches.
FirstPattern(patterns, k, url) ==
    IF k > Len(patterns) THEN None
    ELSE LET Match(video_id) ==
                 IF video_id # None /\ IsValidVideoId(video_id) THEN video_id
                 ELSE FirstPattern(patterns, k + 1, url)
         IN  Match(ReSearch(patterns[k], url))

\* A Python value of the input: a str or something else (None, a number).
IsStr(url) == url.type = "str"

\* Lines 29-55 for a given list of patterns (cls.YOUTUBE_PATTERNS in the
\* source): the identifier, or None where InvalidURLError is raised.
ExtractWithPatterns(patterns, url) ==
    IF ~IsStr(url) \/ url.s = <<>> THEN None
    ELSE LET OrFallback(byPattern, stripped) ==
                 IF byPattern # None THEN byPattern ELSE QueryFallback(stripped)
             Stripped(stripped) ==
                 OrFallback(FirstPattern(patterns, 1, stripped), stripped)
         IN  Stripped(Strip(url.s))

\* extract_video_id that rejects nothing: what it cannot resolve it hands on
\* as an identifier.
extract_video_id_Lenient(url) == <<"x">> \o url.s

\* URLManager.extract_video_id: the identifier, or None where the source
\* raises InvalidURLError.
extract_video_id(url) == ExtractWithPatterns(YOUTUBE_PATTERNS, url)

\* URLManager.validate_url
validate_url(url) == extract_video_id(url) # None

CANONICAL_PREFIX == <<"h", "t", "t", "p", "s", ":", "/", "/", "w", "w", "w", ".", "y", "o", "u", "t", "u", "b", "e", ".", "c", "o", "m", "/", "w", "a", "t", "c", "h", "?", "v", "=">>

\* normalize_url that validates the URL and returns it as it was given.
normalize_url_KeepsForm(url) ==
    LET Given(video_id) == IF video_id = None THEN None ELSE Strip(url.s)
    IN  Given(extract_video_id(url))

\* URLManager.normalize_url: the canonical URL, or None where extract_video_id
\* raises.
normalize_url(url) ==
    LET Canonical(video_id) ==
            IF video_id = None THEN None ELSE CANONICAL_PREFIX \o video_id
    IN  Canonical(extract_video_id(url))

\* ------------------------------------------------------------------------
\* config.py
\* ------------------------------------------------------------------------

AUDIO_FORMAT_MP3 == <<"m", "p", "3">>

\* The working directory Path.resolve() puts before a relative path.
Cwd == << <<"/">>, <<"w", "o", "r", "k">> >>

OutDirName == <<"o", "u", "t">>

\* Path.is_absolute()
IsAbsolute(path) == Len(path) > 0 /\ path[1] = <<"/">>

\* DownloaderConfig.__post_init__, lines 85-86: a relative output_directory
\* is resolved, so the stored one is absolute.
ResolveOutputDirectory(output_directory) ==
    IF IsAbsolute(output_directory) THEN output_directory
    ELSE Cwd \o output_directory

\* ------------------------------------------------------------------------
\* filesystem_manager.py: paths and names
\* ------------------------------------------------------------------------

\* The characters of the class [<>:"/\\|?*] of line 64.
IllegalChars == {"<", ">", ":", "\"", "/", "\\", "|", "?", "*"}

\* s[:k] of Python, negative k included.
SliceTo(s, k) ==
    IF k >= 0 THEN SubSeq(s, 1, IF k < Len(s) THEN k ELSE Len(s))
    ELSE SubSeq(s, 1, IF Len(s) + k > 0 THEN Len(s) + k ELSE 0)

RECURSIVE RemoveChars(_, _)
\* re.sub(r'[<>:"/\\|?*]', '', title)
RemoveChars(s, cs) ==
    IF s = <<>> THEN <<>>
    ELSE IF s[1] \in cs THEN RemoveChars(Tail(s), cs)
    ELSE <<s[1]>> \o RemoveChars(Tail(s), cs)

RECURSIVE CollapseWhitespace(_)
\* re.sub(r'\s+', '_', s): every maximal run of whitespace becomes one '_'.
CollapseWhitespace(s) ==
    IF s = <<>> THEN <<>>
    ELSE IF s[1] \in Whitespace
         THEN IF Len(s) > 1 /\ s[2] \in Whitespace
              THEN CollapseWhitespace(Tail(s))
              ELSE <<"_">> \o CollapseWhitespace(Tail(s))
         ELSE <<s[1]>> \o CollapseWhitespace(Tail(s))

\* str.isspace()
IsSpace(s) == s # <<>> /\ \A i \in 1..Len(s) : s[i] \in Whitespace

TRUNCATION_MARGIN == 15

\* FilesystemManager._clean_filename
clean_filename(title, video_id, max_filename_length) ==
    IF title = <<>> THEN video_id
    ELSE LET stripped  == RemoveChars(title, IllegalChars)
             cleaned   == CollapseWhitespace(Strip(stripped))
             truncated == IF Len(cleaned) > max_filename_length
                          THEN SliceTo(cleaned, max_filename_length - TRUNCATION_MARGIN)
                                   \o <<"_">> \o video_id
                          ELSE cleaned
         IN  IF truncated = <<>> \/ IsSpace(truncated) THEN video_id ELSE truncated

\* PurePath.suffix of a file name: from the last '.', unless that is the first
\* or the last character.
Suffix(name) ==
    LET i == RFind(name, <<".">>)
    IN  IF 1 < i /\ i < Len(name) THEN From(name, i) ELSE <<>>

\* PurePath.with_suffix(suffix), on the name: the old suffix is replaced, or
\* the new one added when there is none.
NameWithSuffix(name, suffix) ==
    IF Suffix(name) = <<>> THEN name \o suffix
    ELSE SubSeq(name, 1, Len(name) - Len(Suffix(name))) \o suffix

\* path.parent and path.name
Parent(path) == SubSeq(path, 1, Len(path) - 1)

Name(path) == path[Len(path)]

WithSuffix(path, suffix) == Parent(path) \o <<NameWithSuffix(Name(path), suffix)>>

RECURSIVE PathStr(_)
\* str(path)
PathStr(path) ==
    IF path = <<>> THEN <<>>
    ELSE IF Len(path) = 1 THEN path[1]
    ELSE IF Parent(path) = << <<"/">> >> THEN <<"/">> \o Name(path)
    ELSE PathStr(Parent(path)) \o <<"/">> \o Name(path)

\* FilesystemManager.prepare_download_paths, lines 30-34
OutputDir(cfg, video_id) ==
    IF cfg.create_video_subdirectory THEN cfg.output_directory \o <<video_id>>
    ELSE cfg.output_directory

\* FilesystemManager.prepare_download_paths, lines 39-45
BaseOutputPath(cfg, video_id, title) ==
    LET filename == IF title # <<>> /\ cfg.clean_filename
                    THEN clean_filename(title, video_id, cfg.max_filename_length)
                    ELSE video_id
    IN  OutputDir(cfg, video_id) \o <<filename>>

\* Lines 87 and 111: base_path.with_suffix(f".{audio_format}")
AudioPath(cfg, base_path) == WithSuffix(base_path, <<".">> \o cfg.audio_format)

\* ytdlp_manager.py line 112: the output template f"{base_output_path}.%(ext)s"
\* with ext the audio format, which is where the engine leaves the audio.
TemplatePath(base_path, ext) == Parent(base_path) \o <<Name(base_path) \o <<".">> \o ext>>

\* ------------------------------------------------------------------------
\* filesystem_manager.py: the filesystem
\* ------------------------------------------------------------------------

\* The filesystem is the set of directories and the set of files (each a
\* path) that exist.
RECURSIVE Ancestors(_)
\* A path and every directory above it.
Ancestors(path) ==
    IF Len(path) <= 1 THEN {path} ELSE {path} \cup Ancestors(Parent(path))

\* Path.mkdir(parents=True, exist_ok=True)
Mkdir(filesystem, dir) == [filesystem EXCEPT !.dirs = @ \cup Ancestors(dir)]

\* Path.exists()
Exists(filesystem, path) == path \in filesystem.files \/ path \in filesystem.dirs

\* Path.is_file()
IsFile(filesystem, path) == path \in filesystem.files

\* fnmatch of a name against a pattern with one '*' and no other wildcard.
FnMatch(name, pattern) ==
    LET star == Find(pattern, <<"*">>)
        head == SubSeq(pattern, 1, star - 1)
        tail == From(pattern, star + 1)
    IN  IF star = 0 THEN name = pattern
        ELSE /\ Len(name) >= Len(head) + Len(tail)
             /\ StartsAt(name, 1, head)
             /\ StartsAt(name, Len(name) - Len(tail) + 1, tail)

\* Path.glob(pattern) raises NotImplementedError("Non-relative patterns are
\* unsupported") for a pattern that starts at the root.
GlobRaises(pattern) == Len(pattern) > 0 /\ pattern[1] = "/"

\* Path.glob(pattern) of a relative pattern: its directories are looked up
\* under dir, its last component is matched against the names there.
Glob(filesystem, dir, pattern) ==
    LET parts == Split(pattern, "/")
        where == dir \o SubSeq(parts, 1, Len(parts) - 1)
    IN  {f \in filesystem.files \cup filesystem.dirs :
            /\ Len(f) > 0
            /\ Parent(f) = where
            /\ FnMatch(Name(f), parts[Len(parts)])}

VTT_GLOB_SUFFIX == <<"*", ".", "v", "t", "t">>

\* Lines 94-96 and 119-122: the subtitle files, base_path.name + "*.vtt"
\* under base_path.parent.
SubtitleFiles(cfg, filesystem, base_path) ==
    IF cfg.download_subtitles
    THEN Glob(filesystem, Parent(base_path), Name(base_path) \o VTT_GLOB_SUFFIX)
    ELSE {}

\* check_existing_files with the test of line 90 inverted.
check_existing_files_Inverted(cfg, filesystem, base_path) ==
    LET audio_path == AudioPath(cfg, base_path)
        found      == Exists(filesystem, audio_path)
    IN  [audio       |-> IF found THEN audio_path ELSE None,
         subtitles   |-> SubtitleFiles(cfg, filesystem, base_path),
         should_skip |-> found /\ cfg.overwrite_existing]

\* FilesystemManager.check_existing_files
check_existing_files(cfg, filesystem, base_path) ==
    LET audio_path == AudioPath(cfg, base_path)
        found      == Exists(filesystem, audio_path)
    IN  [audio       |-> IF found THEN audio_path ELSE None,
         subtitles   |-> SubtitleFiles(cfg, filesystem, base_path),
         should_skip |-> found /\ ~cfg.overwrite_existing]

\* FilesystemManager.verify_download_results
verify_download_results(cfg, filesystem, base_path) ==
    LET audio_path == AudioPath(cfg, base_path)
        found      == Exists(filesystem, audio_path)
    IN  [audio_file     |-> IF found THEN audio_path ELSE None,
         subtitle_files |-> IF found THEN SubtitleFiles(cfg, filesystem, base_path) ELSE {},
         success        |-> found]

\* Lines 135-139: the three patterns, each str(base_path) plus a suffix.
CleanupPatterns(base_path) ==
    <<PathStr(base_path) \o <<".", "*">>,
      PathStr(base_path) \o <<".", "p", "a", "r", "t", "*">>,
      PathStr(base_path) \o <<".", "t", "e", "m", "p", "*">>>>

\* FilesystemManager.cleanup_failed_download: the files left afterwards.  The
\* patterns are tried in order; a glob that raises ends the whole loop in the
\* handler of line 150, which only logs.  A file whose unlink raises OSError
\* (one of stuck) is logged and kept (lines 147-148).
cleanup_failed_download(filesystem, base_path, stuck) ==
    LET patterns == CleanupPatterns(base_path)
        usable   == IF \E k \in 1..Len(patterns) : GlobRaises(patterns[k])
                    THEN Min({k \in 1..Len(patterns) : GlobRaises(patterns[k])}) - 1
                    ELSE Len(patterns)
        matched  == UNION {Glob(filesystem, Parent(base_path), patterns[k]) : k \in 1..usable}
        removed  == {f \in matched : IsFile(filesystem, f) /\ f \notin stuck}
    IN  [filesystem EXCEPT !.files = @ \ removed]

\* The methods the class FilesystemManager defines (lines 19-171).  A call of
\* any other name on an instance raises AttributeError.
FilesystemManagerMethods ==
    {"__init__", "prepare_download_paths", "_clean_filename", "check_existing_files",
     "verify_download_results", "cleanup_failed_download", "remove_empty_directories"}

\* ------------------------------------------------------------------------
\* exceptions.py and result.py
\* ------------------------------------------------------------------------

\* An exception: its class, the text of the f-string that built its message
\* and the str() the f-string embeds.
Err(cls, fmt, arg) == [cls |-> cls, fmt |-> fmt, arg |-> arg]

NoErr == Err("None", "", <<>>)

\* The classes the first except clause of Downloader.download names
\* (downloader.py lines 121-124).
KnownErrors ==
    {"InvalidURLError", "VideoUnavailableError", "LowQualityError",
     "FileSystemError", "NetworkError", "DownloadFailedError"}

\* Python's None for the metadata mapping, and a mapping with its title.
NoMetadata == [present |-> FALSE, title |-> <<>>]

Metadata(title) == [present |-> TRUE, title |-> title]

\* A str value and a value of another type (None), as download receives it.
Str(s) == [type |-> "str", s |-> s]

NotAStr == [type |-> "NoneType", s |-> <<>>]

\* No DownloadResult: download has not returned one.
NoResult ==
    [status |-> "none", video_id |-> <<>>, video_url |-> NotAStr,
     audio_file_path |-> <<>>, subtitle_files |-> {},
     error_message |-> [prefix |-> "", err |-> NoErr], metadata |-> NoMetadata]

\* DownloadResult.success_result
success_result(video_id, video_url, audio_path, subtitle_files, metadata) ==
    [status |-> "success", video_id |-> video_id, video_url |-> video_url,
     audio_file_path |-> audio_path, subtitle_files |-> subtitle_files,
     error_message |-> [prefix |-> "", err |-> NoErr], metadata |-> metadata]

\* DownloadResult.error_result
error_result(video_id, video_url, error_message) ==
    [status |-> "error", video_id |-> video_id, video_url |-> video_url,
     audio_file_path |-> <<>>, subtitle_files |-> {},
     error_message |-> error_message, metadata |-> NoMetadata]

\* DownloadResult.skipped_result
skipped_result(video_id, video_url, reason) ==
    [status |-> "skipped", video_id |-> video_id, video_url |-> video_url,
     audio_file_path |-> <<>>, subtitle_files |-> {},
     error_message |-> [prefix |-> "", err |-> Err("None", reason, <<>>)],
     metadata |-> NoMetadata]

UNKNOWN_ID == <<"u", "n", "k", "n", "o", "w", "n">>

\* ------------------------------------------------------------------------
\* ytdlp_manager.py
\* ------------------------------------------------------------------------

\* Line 94
UNAVAILABLE_KEYWORDS ==
    {<<"p", "r", "i", "v", "a", "t", "e">>,
     <<"u", "n", "a", "v", "a", "i", "l", "a", "b", "l", "e">>,
     <<"d", "e", "l", "e", "t", "e", "d">>,
     <<"r", "e", "m", "o", "v", "e", "d">>}

\* Line 97
NETWORK_KEYWORDS ==
    {<<"n", "e", "t", "w", "o", "r", "k">>,
     <<"c", "o", "n", "n", "e", "c", "t", "i", "o", "n">>,
     <<"t", "i", "m", "e", "o", "u", "t">>}

\* ClassifyDownloadError that looks for the keywords in the message as it is,
\* not lower-cased.
ClassifyDownloadError_CaseSensitive(msg) ==
    IF \E keyword \in UNAVAILABLE_KEYWORDS : Contains(msg, keyword)
    THEN Err("VideoUnavailableError", "Video unavailable: {e}", msg)
    ELSE IF \E keyword \in NETWORK_KEYWORDS : Contains(msg, keyword)
    THEN Err("NetworkError", "Network error: {e}", msg)
    ELSE Err("DownloadFailedError", "Download failed: {e}", msg)

\* Lines 92-101: the class given to a yt_dlp.DownloadError by its message.
ClassifyDownloadError(msg) ==
    LET error_msg == Lower(msg)
    IN  IF \E keyword \in UNAVAILABLE_KEYWORDS : Contains(error_msg, keyword)
        THEN Err("VideoUnavailableError", "Video unavailable: {e}", msg)
        ELSE IF \E keyword \in NETWORK_KEYWORDS : Contains(error_msg, keyword)
        THEN Err("NetworkError", "Network error: {e}", msg)
        ELSE Err("DownloadFailedError", "Download failed: {e}", msg)

\* Lines 67-71: the quality floor.  info_dict.get('abr', 0) is 0 when the key
\* is missing and None when the engine reports null.
BelowQualityFloor(cfg, info) ==
    /\ cfg.min_audio_quality > 0
    /\ LET abr == IF info.abr_key = "missing" THEN 0 ELSE info.abr
       IN  info.abr_key # "null" /\ abr < cfg.min_audio_quality

PART_EXT == <<"p", "a", "r", "t">>

VTT_EXT == <<"e", "n", ".", "v", "t", "t">>

\* What the engine leaves on disk in process_ie_result(download=True), under
\* the output template of line 112: a partial file, the audio, a subtitle.
EngineWrites(cfg, filesystem, base_path, dl) ==
    [filesystem EXCEPT !.files =
        @ \cup (IF dl.wrote_partial THEN {TemplatePath(base_path, PART_EXT)} ELSE {})
          \cup (IF dl.wrote_audio THEN {TemplatePath(base_path, cfg.audio_format)} ELSE {})
          \cup (IF dl.wrote_audio /\ cfg.download_subtitles
                THEN {TemplatePath(base_path, VTT_EXT)} ELSE {})]

\* _execute_download with the quality floor tested after process_ie_result
\* instead of before it.
execute_download_FloorAfterDownload(cfg, filesystem, base_path, info, dl) ==
    [fs         |-> EngineWrites(cfg, filesystem, base_path, dl),
     downloaded |-> TRUE,
     err        |-> IF BelowQualityFloor(cfg, info)
                    THEN Err("LowQualityError",
                             "Audio quality ({abr}k) is below the minimum of {min}k", <<>>)
                    ELSE NoErr]

\* YtDlpManager._execute_download: the filesystem afterwards, the exception
\* raised (NoErr when it returns) and the metadata returned.  info is what
\* extract_info(download=False) does and dl what process_ie_result does.
execute_download(cfg, filesystem, base_path, info, dl) ==
    IF info.kind = "DownloadError"
    THEN [fs |-> filesystem, err |-> ClassifyDownloadError(info.msg), downloaded |-> FALSE]
    ELSE IF info.kind = "Exception"
    THEN [fs |-> filesystem, downloaded |-> FALSE,
          err |-> Err("DownloadFailedError", "Unexpected error during download: {e}", info.msg)]
    ELSE IF BelowQualityFloor(cfg, info)
    THEN [fs |-> filesystem, downloaded |-> FALSE,
          err |-> Err("LowQualityError", "Audio quality ({abr}k) is below the minimum of {min}k", <<>>)]
    ELSE LET after == EngineWrites(cfg, filesystem, base_path, dl)
             final_audio_path == TemplatePath(base_path, cfg.audio_format)
         IN  IF dl.kind = "DownloadError"
             THEN [fs |-> after, err |-> ClassifyDownloadError(dl.msg), downloaded |-> TRUE]
             ELSE IF dl.kind = "Exception"
             THEN [fs |-> after, downloaded |-> TRUE,
                   err |-> Err("DownloadFailedError", "Unexpected error during download: {e}", dl.msg)]
             ELSE IF ~Exists(after, final_audio_path)
             THEN [fs |-> after, downloaded |-> TRUE,
                   err |-> Err("DownloadFailedError",
                               "Unexpected error during download: Download finished, but the final audio file could not be found.",
                               <<>>)]
             ELSE [fs |-> after, err |-> NoErr, downloaded |-> TRUE]

\* SleepBefore with the guard of line 35 dropped: a sleep before every attempt.
SleepBefore_EveryIteration(cfg, attempt) == <<cfg.retry_delay_seconds * attempt>>

\* SleepBefore with a constant delay.
SleepBefore_Constant(cfg, attempt) ==
    IF attempt > 0 THEN <<cfg.retry_delay_seconds>> ELSE <<>>

\* Lines 35-38: the delays slept at the top of iteration attempt.
SleepBefore(cfg, attempt) ==
    IF attempt > 0 THEN <<cfg.retry_delay_seconds * attempt>> ELSE <<>>

\* IsPermanent with LowQualityError left to the retrying clause.
IsPermanent_OnlyUnavailable(err) == err.cls \in {"VideoUnavailableError"}

\* Line 42: the classes the loop re-raises at once.
IsPermanent(err) == err.cls \in {"VideoUnavailableError", "LowQualityError"}

\* NextLastError that keeps the first error seen.
NextLastError_KeepFirst(last_error, e) == IF last_error = NoErr THEN e ELSE last_error

\* Line 45: last_error = e
NextLastError(last_error, e) == e

\* Lines 48-51: continue when true, break when false.
RetryAgain(cfg, attempt) == attempt < cfg.max_retries

\* Line 33: range(max_retries + 1) holds attempt.
InRange(cfg, attempt) == 0 <= attempt /\ attempt < cfg.max_retries + 1

\* YtDlpManager._handle_final_error: the exception it raises.
handle_final_error(error) ==
    IF error.cls \in {"VideoUnavailableError", "NetworkError", "DownloadFailedError", "LowQualityError"}
    THEN error
    ELSE Err("DownloadFailedError", "Download failed after {max_retries} retries: {error}", error.arg)

\* ------------------------------------------------------------------------
\* The inputs: configurations, URLs, what the engine and the disk do
\* ------------------------------------------------------------------------

\* The largest max_retries a configuration is given.
MaxRetriesBound == 2

RETRY_DELAY_SECONDS == 2

MAX_FILENAME_LENGTH == 100

MEDIUM == 128

LOW == 64

HIGH == 192

\* DownloaderConfig(...) after __post_init__, for the fields the managers read.
\* max_retries is not validated (config.py lines 79-86), so a negative one is a
\* configuration too.  download_subtitles comes with the subtitle_languages
\* that lines 82-83 ask for.
Configs ==
    {[output_directory          |-> ResolveOutputDirectory(dir),
      audio_format              |-> AUDIO_FORMAT_MP3,
      min_audio_quality         |-> q,
      overwrite_existing        |-> ow,
      download_subtitles        |-> subs,
      create_video_subdirectory |-> sub,
      clean_filename            |-> clean,
      max_filename_length       |-> MAX_FILENAME_LENGTH,
      max_retries               |-> r,
      retry_delay_seconds       |-> RETRY_DELAY_SECONDS] :
        dir \in {<<OutDirName>>, << <<"/">>, <<"w", "o", "r", "k">>, OutDirName >>},
        q \in {0, MEDIUM}, ow \in BOOLEAN, subs \in BOOLEAN, sub \in BOOLEAN,
        clean \in BOOLEAN, r \in (-1)..MaxRetriesBound}

IdA == <<"d", "Q", "w", "4", "w", "9", "W", "g", "X", "c", "Q">>

UrlShort == <<"h", "t", "t", "p", "s", ":", "/", "/", "y", "o", "u", "t", "u", ".", "b", "e", "/", "d", "Q", "w", "4", "w", "9", "W", "g", "X", "c", "Q">>

UrlMobile == <<" ", "h", "t", "t", "p", "s", ":", "/", "/", "m", ".", "y", "o", "u", "t", "u", "b", "e", ".", "c", "o", "m", "/", "w", "a", "t", "c", "h", "?", "t", "=", "1", "&", "v", "=", "d", "Q", "w", "4", "w", "9", "W", "g", "X", "c", "Q">>

UrlOther == <<"h", "t", "t", "p", "s", ":", "/", "/", "e", "x", "a", "m", "p", "l", "e", ".", "c", "o", "m", "/", "x">>

\* The values download is called with.
Urls == {Str(UrlShort), Str(UrlMobile), Str(UrlOther), Str(<<>>), NotAStr}

TitleSong == <<"S", "o", "n", "g">>

TitleDotted == <<"M", "r", ".", " ", "X">>

Titles == {TitleSong, TitleDotted}

MsgPrivate == <<"E", "R", "R", "O", "R", ":", " ", "P", "r", "i", "v", "a", "t", "e", " ", "v", "i", "d", "e", "o">>

MsgTimeout == <<"R", "e", "a", "d", " ", "t", "i", "m", "e", "o", "u", "t">>

MsgUnsupported == <<"U", "n", "s", "u", "p", "p", "o", "r", "t", "e", "d", " ", "U", "R", "L">>

MsgGone == <<"V", "i", "d", "e", "o", " ", "r", "e", "m", "o", "v", "e", "d", ":", " ", "C", "o", "n", "n", "e", "c", "t", "i", "o", "n", " ", "r", "e", "s", "e", "t">>

MsgBoom == <<"b", "o", "o", "m">>

\* What ydl.extract_info(url, download=False) does in one attempt: it raises
\* yt_dlp.DownloadError, raises something else, or returns an info_dict whose
\* abr is missing, null or a number.
InfoRaises(kind, msg) == [kind |-> kind, msg |-> msg, abr_key |-> "missing", abr |-> 0]

InfoReturns(abr_key, abr) == [kind |-> "info", msg |-> <<>>, abr_key |-> abr_key, abr |-> abr]

\* What ydl.process_ie_result(info_dict, download=True) does: it raises after
\* leaving a partial file, or returns, the audio written or not.
DlRaises(kind, msg) ==
    [kind |-> kind, msg |-> msg, wrote_partial |-> TRUE, wrote_audio |-> FALSE]

DlReturns(wrote_audio) ==
    [kind |-> "done", msg |-> <<>>, wrote_partial |-> FALSE, wrote_audio |-> wrote_audio]

\* The behaviours of the engine in one attempt.  The download step is reached
\* only when the information step returns; every kind of bitrate estimate is
\* tried with a download that works, every kind of download with an estimate
\* above any floor.
EngineOutcomes ==
    {[info |-> InfoRaises("DownloadError", m), dl |-> DlReturns(FALSE)] :
        m \in {MsgPrivate, MsgTimeout, MsgUnsupported}}
    \cup {[info |-> InfoRaises("Exception", MsgBoom), dl |-> DlReturns(FALSE)]}
    \cup {[info |-> i, dl |-> DlReturns(TRUE)] :
            i \in {InfoReturns("missing", 0), InfoReturns("null", 0), InfoReturns("value", LOW)}}
    \cup {[info |-> InfoReturns("value", HIGH), dl |-> d] :
            d \in {DlRaises("DownloadError", MsgTimeout), DlRaises("DownloadError", MsgGone),
                   DlReturns(TRUE), DlReturns(FALSE)}}

\* The root of the filesystem and what is on disk before download is called:
\* nothing of this video, or an audio file of an earlier download.
RootDirs == Ancestors(Cwd)

EarlierFiles(cfg) ==
    {{}} \cup {{AudioPath(cfg, BaseOutputPath(cfg, IdA, title))} : title \in Titles}

InitialFilesystem(files) ==
    [dirs |-> RootDirs \cup UNION {Ancestors(Parent(f)) : f \in files}, files |-> files]

\* An entry of the log of calls into the engine and of sleeps.
Event(kind, n, url, err) == [kind |-> kind, n |-> n, url |-> url, err |-> err]

\* ------------------------------------------------------------------------
\* downloader.py: Downloader.download as a state machine
\* ------------------------------------------------------------------------

VARIABLES
    config,            \* self.config
    video_url,         \* the argument of download
    fs,                \* the filesystem
    fs_before,         \* the filesystem when download was called
    pc,                \* where download is
    video_id, normalized_url, metadata, output_dir, base_output_path,
    verification,      \* the locals of download
    attempt, last_error,  \* the locals of download_video
    exc,               \* the exception raised inside the try block
    events,            \* the engine calls and sleeps so far
    result,            \* the DownloadResult download returned
    raised,            \* the exception that left download
    arg, ret           \* the argument and the results of a manager's function
                       \* called on its own, outside download

vars == <<config, video_url, fs, fs_before, pc, video_id, normalized_url, metadata, output_dir,
          base_output_path, verification, attempt, last_error, exc, events, result,
          raised, arg, ret>>

NoVerification == [audio_file |-> <<>>, subtitle_files |-> {}, success |-> FALSE]

Init ==
    /\ config \in Configs
    /\ video_url \in Urls
    /\ \E files \in EarlierFiles(config) : fs = InitialFilesystem(files)
    /\ fs_before = fs
    /\ pc = "resolve"
    /\ video_id = None
    /\ normalized_url = None
    /\ metadata = NoMetadata
    /\ output_dir = None
    /\ base_output_path = None
    /\ verification = NoVerification
    /\ attempt = 0
    /\ last_error = NoErr
    /\ exc = NoErr
    /\ events = <<>>
    /\ result = NoResult
    /\ raised = NoErr
    /\ arg = None
    /\ ret = <<>>

\* Lines 29-35 of url_manager.py: the InvalidURLError extract_video_id raises.
InvalidURLError(url) ==
    IF ~IsStr(url) \/ url.s = <<>>
    THEN Err("InvalidURLError", "URL must be a non-empty string", <<>>)
    ELSE Err("InvalidURLError", "Could not extract valid video ID from URL: {url}", Strip(url.s))

\* Lines 80-82
ExtractVideoId ==
    /\ pc = "resolve"
    /\ IF extract_video_id(video_url) = None
       THEN /\ exc' = InvalidURLError(video_url)
            /\ pc' = "except"
            /\ UNCHANGED <<video_id, normalized_url>>
       ELSE /\ video_id' = extract_video_id(video_url)
            /\ normalized_url' = normalize_url(video_url)
            /\ pc' = "probe"
            /\ UNCHANGED exc
    /\ UNCHANGED <<arg, ret, config, video_url, fs_before, fs, metadata, output_dir, base_output_path,
                   verification, attempt, last_error, events, result, raised>>

\* ProbeError that lets a probe of None through.
ProbeError_Tolerant(probe) == NoErr

\* Lines 85-86: a probe that returned None is raised as VideoUnavailableError.
ProbeError(probe) ==
    IF ~probe.present
    THEN Err("VideoUnavailableError", "Could not retrieve video metadata.", <<>>)
    ELSE NoErr

\* Lines 84-88.  extract_info_only (ytdlp_manager.py lines 178-195) returns
\* the metadata, or None when the engine raises.
ExtractInfoOnly ==
    /\ pc = "probe"
    /\ \E probe \in {NoMetadata} \cup {Metadata(title) : title \in Titles} :
        /\ events' = Append(events, Event("probe", 0, normalized_url, NoErr))
        /\ metadata' = probe
        /\ exc' = ProbeError(probe)
        /\ pc' = IF ProbeError(probe) # NoErr THEN "except" ELSE "plan"
    /\ UNCHANGED <<arg, ret, config, video_url, fs_before, fs, video_id, normalized_url, output_dir,
                   base_output_path, verification, attempt, last_error, result, raised>>

\* Lines 90-92.  prepare_download_paths (filesystem_manager.py lines 24-53)
\* creates the directory, or raises FileSystemError when mkdir raises.
PrepareDownloadPaths ==
    /\ pc = "plan"
    /\ \E mkdir_ok \in BOOLEAN :
        IF mkdir_ok
        THEN /\ fs' = Mkdir(fs, OutputDir(config, video_id))
             /\ output_dir' = OutputDir(config, video_id)
             /\ base_output_path' = BaseOutputPath(config, video_id, metadata.title)
             /\ pc' = "check"
             /\ UNCHANGED exc
        ELSE /\ exc' = Err("FileSystemError", "Failed to create output directory: {e}", <<>>)
             /\ pc' = "except"
             /\ UNCHANGED <<fs, output_dir, base_output_path>>
    /\ UNCHANGED <<arg, ret, config, video_url, fs_before, video_id, normalized_url, metadata, verification,
                   attempt, last_error, events, result, raised>>

SKIP_REASON == "Files already exist and overwrite is disabled"

\* Lines 94-100
CheckExistingFiles ==
    /\ pc = "check"
    /\ IF check_existing_files(config, fs, base_output_path).should_skip
       THEN /\ result' = skipped_result(video_id, Str(normalized_url), SKIP_REASON)
            /\ pc' = "done"
       ELSE /\ pc' = "download"
            /\ UNCHANGED result
    /\ UNCHANGED <<arg, ret, config, video_url, fs_before, fs, video_id, normalized_url, metadata, output_dir,
                   base_output_path, verification, attempt, last_error, exc, events, raised>>

\* Line 103: the URL download_video is called with.
DownloadUrl == video_url.s

\* Line 103, download_video (ytdlp_manager.py lines 26-53) when the range of
\* line 33 holds no further attempt: the loop ends and line 53 calls
\* _handle_final_error(last_error, ...).  The break of line 51 comes first
\* unless the range is empty, and then last_error is None.
DownloadLoopEnds ==
    /\ pc = "download"
    /\ ~InRange(config, attempt)
    /\ exc' = handle_final_error(last_error)
    /\ pc' = "except"
    /\ UNCHANGED <<arg, ret, config, video_url, fs_before, fs, video_id, normalized_url, metadata, output_dir,
                   base_output_path, verification, attempt, last_error, events, result,
                   raised>>

\* Line 103, one iteration of the loop of download_video (ytdlp_manager.py
\* lines 33-53): the sleep, _execute_download, and what follows its outcome.
DownloadAttempt ==
    /\ pc = "download"
    /\ InRange(config, attempt)
    /\ \E engine \in EngineOutcomes :
        \E run \in {execute_download(config, fs, base_output_path, engine.info, engine.dl)},
           slept \in {[i \in 1..Len(SleepBefore(config, attempt)) |->
                         Event("sleep", SleepBefore(config, attempt)[i], <<>>, NoErr)]} :
            /\ events' = events \o slept \o <<Event("attempt", attempt, DownloadUrl, run.err)>>
            /\ fs' = run.fs
            /\ IF run.err = NoErr
               THEN /\ pc' = "verify"
                    /\ UNCHANGED <<attempt, last_error, exc>>
               ELSE IF IsPermanent(run.err)
               THEN /\ exc' = run.err
                    /\ pc' = "except"
                    /\ UNCHANGED <<attempt, last_error>>
               ELSE /\ last_error' = NextLastError(last_error, run.err)
                    /\ IF RetryAgain(config, attempt)
                       THEN /\ attempt' = attempt + 1
                            /\ UNCHANGED <<pc, exc>>
                       ELSE /\ exc' = handle_final_error(last_error')
                            /\ pc' = "except"
                            /\ UNCHANGED attempt
    /\ UNCHANGED <<arg, ret, config, video_url, fs_before, video_id, normalized_url, metadata, output_dir,
                   base_output_path, verification, result, raised>>

\* Lines 105-107
VerifyDownloadResults ==
    /\ pc = "verify"
    /\ verification' = verify_download_results(config, fs, base_output_path)
    /\ IF ~verification'.success
       THEN /\ exc' = Err("DownloadFailedError",
                          "Download verification failed - expected files not found", <<>>)
            /\ pc' = "except"
       ELSE /\ pc' = "save_metadata"
            /\ UNCHANGED exc
    /\ UNCHANGED <<arg, ret, config, video_url, fs_before, fs, video_id, normalized_url, metadata, output_dir,
                   base_output_path, attempt, last_error, events, result, raised>>

\* The AttributeError of a call of a method the FilesystemManager lacks.
AttributeError(method) ==
    Err("AttributeError", "'FilesystemManager' object has no attribute '{name}'", <<>>)

\* Lines 109-119.  FilesystemManager defines no save_metadata_file, so line
\* 110 raises AttributeError and lines 112-119 are not reached.
SaveMetadataFile ==
    /\ pc = "save_metadata"
    /\ IF "save_metadata_file" \in FilesystemManagerMethods
       THEN /\ result' = success_result(video_id, Str(normalized_url), verification.audio_file,
                                        verification.subtitle_files, metadata)
            /\ pc' = "done"
            /\ UNCHANGED exc
       ELSE /\ exc' = AttributeError("save_metadata_file")
            /\ pc' = "except"
            /\ UNCHANGED result
    /\ UNCHANGED <<arg, ret, config, video_url, fs_before, fs, video_id, normalized_url, metadata, output_dir,
                   base_output_path, verification, attempt, last_error, events, raised>>

\* Lines 126-132 and 136-142, the body both except clauses share: the cleanup,
\* the call of remove_video_subdirectory, which FilesystemManager does not
\* define, and the error result.  An exception raised here leaves download.
Handler(prefix) ==
    /\ \E stuck \in {{}, fs.files} :
        fs' = IF base_output_path # None
              THEN cleanup_failed_download(fs, base_output_path, stuck)
              ELSE fs
    /\ IF output_dir # None /\ "remove_video_subdirectory" \notin FilesystemManagerMethods
       THEN /\ raised' = AttributeError("remove_video_subdirectory")
            /\ UNCHANGED result
       ELSE /\ result' = error_result(IF video_id # None THEN video_id ELSE UNKNOWN_ID,
                                      video_url, [prefix |-> prefix, err |-> exc])
            /\ UNCHANGED raised
    /\ pc' = "done"
    /\ UNCHANGED <<arg, ret, config, video_url, fs_before, video_id, normalized_url, metadata, output_dir,
                   base_output_path, verification, attempt, last_error, exc, events>>

\* Lines 121-132
ExceptKnown ==
    /\ pc = "except"
    /\ exc.cls \in KnownErrors
    /\ Handler("")

\* Lines 134-142
ExceptUnexpected ==
    /\ pc = "except"
    /\ exc.cls \notin KnownErrors
    /\ Handler("Unexpected error: ")

Next ==
    \/ ExtractVideoId
    \/ ExtractInfoOnly
    \/ PrepareDownloadPaths
    \/ CheckExistingFiles
    \/ DownloadLoopEnds
    \/ DownloadAttempt
    \/ VerifyDownloadResults
    \/ SaveMetadataFile
    \/ ExceptKnown
    \/ ExceptUnexpected

Spec == Init /\ [][Next]_vars

\* ------------------------------------------------------------------------
\* The managers' functions called on their own
\* ------------------------------------------------------------------------

\* DownloaderConfig(output_directory="out") with the defaults of config.py, and
\* max_retries at the largest value the model runs.
DEFAULT_CONFIG ==
    [output_directory          |-> ResolveOutputDirectory(<<OutDirName>>),
     audio_format              |-> AUDIO_FORMAT_MP3,
     min_audio_quality         |-> 0,
     overwrite_existing        |-> FALSE,
     download_subtitles        |-> FALSE,
     create_video_subdirectory |-> TRUE,
     clean_filename            |-> TRUE,
     max_filename_length       |-> MAX_FILENAME_LENGTH,
     max_retries               |-> MaxRetriesBound,
     retry_delay_seconds       |-> RETRY_DELAY_SECONDS]

\* download is not running: its argument, its locals and its outcome are the
\* ones of Init, and the filesystem is bare.
DownloadNotCalled ==
    /\ video_url = NotAStr
    /\ fs = InitialFilesystem({})
    /\ fs_before = fs
    /\ pc = "call"
    /\ video_id = None
    /\ normalized_url = None
    /\ metadata = NoMetadata
    /\ output_dir = None
    /\ base_output_path = None
    /\ verification = NoVerification
    /\ attempt = 0
    /\ last_error = NoErr
    /\ exc = NoErr
    /\ events = <<>>
    /\ result = NoResult
    /\ raised = NoErr

LocalsIdle ==
    UNCHANGED <<video_url, pc, video_id, normalized_url, metadata, output_dir,
                base_output_path, verification, attempt, last_error, exc, events, result,
                raised>>

DownloadIdle == LocalsIdle /\ UNCHANGED <<fs, fs_before>>

\* The messages of the yt_dlp.DownloadError the engine raises: each keyword of
\* lines 94 and 97 in some case, words that are none of them, alone or
\* followed by a keyword of the other group.
MessageHeads == {<<>>, <<"E", "R", "R", "O", "R", ":", " ">>}

MessageWords ==
    UNAVAILABLE_KEYWORDS \cup NETWORK_KEYWORDS
    \cup {<<"P", "r", "i", "v", "a", "t", "e">>, <<"U", "N", "A", "V", "A", "I", "L", "A", "B", "L", "E">>, <<"D", "e", "l", "e", "t", "e", "d">>, <<"T", "i", "m", "e", "O", "u", "t">>, <<"N", "E", "T", "W", "O", "R", "K">>, <<"C", "o", "n", "n", "e", "c", "t", "i", "o", "n">>,
          <<"u", "n", "s", "u", "p", "p", "o", "r", "t", "e", "d", " ", "u", "r", "l">>, <<"p", "r", "i", "v", "a", "t">>, <<"t", "i", "m", "e", " ", "o", "u", "t">>, <<"c", "o", "n", "n", "e", "c", "t">>, <<>>}

MessageTails == {<<>>, <<" ", "a", "f", "t", "e", "r", " ", "c", "o", "n", "n", "e", "c", "t", "i", "o", "n", " ", "r", "e", "s", "e", "t">>, <<" ", "(", "v", "i", "d", "e", "o", " ", "r", "e", "m", "o", "v", "e", "d", ")">>}

Messages == {h \o w \o t : h \in MessageHeads, w \in MessageWords, t \in MessageTails}

\* The attempts of one download_video call all fail with the same engine
\* message; ret collects the exception _execute_download raises in each.
InitClassify ==
    /\ arg \in Messages
    /\ ret = <<>>
    /\ config = DEFAULT_CONFIG
    /\ DownloadNotCalled

\* ytdlp_manager.py lines 92-101, in one more attempt of the range of line 33.
ClassifyAttempt ==
    /\ InRange(config, Len(ret))
    /\ ret' = Append(ret, ClassifyDownloadError(arg))
    /\ UNCHANGED <<arg, config>>
    /\ DownloadIdle

SpecClassify == InitClassify /\ [][ClassifyAttempt]_vars

IdB == <<"_", "-", "9", "z", "Z", "0", "a", "A", "-", "_", "k">>

UrlIds == {IdA, IdB}

UrlSchemes == {<<>>, <<"h", "t", "t", "p", ":", "/", "/">>, <<"h", "t", "t", "p", "s", ":", "/", "/">>}

UrlWww == {<<>>, <<"w", "w", "w", ".">>}

\* The watch, short-link, embed and legacy form of an identifier, with and
\* without the scheme and the www. the patterns make optional.
FormUrls(id) ==
    {scheme \o www \o YOUTUBE_PATTERNS[k] \o id :
        scheme \in UrlSchemes, www \in UrlWww, k \in DOMAIN YOUTUBE_PATTERNS}

\* A form with blanks around it, with a further query field, with one more
\* identifier character.
DecoratedUrls(id) ==
    UNION {{<<" ">> \o u \o <<"\n">>, u \o <<"&", "t", "=", "4", "2">>, u \o <<"Z">>} :
              u \in {<<"h", "t", "t", "p", "s", ":", "/", "/">> \o YOUTUBE_PATTERNS[k] \o id : k \in DOMAIN YOUTUBE_PATTERNS}}

\* URLs only the query-parameter fallback of lines 42-53 resolves.
FallbackUrls(id) ==
    {<<"h", "t", "t", "p", "s", ":", "/", "/", "m", ".", "y", "o", "u", "t", "u", "b", "e", ".", "c", "o", "m", "/", "w", "a", "t", "c", "h", "?", "t", "=", "1", "&", "v", "=">> \o id,
     <<"h", "t", "t", "p", "s", ":", "/", "/", "m", "u", "s", "i", "c", ".", "y", "o", "u", "t", "u", "b", "e", ".", "c", "o", "m", "/", "w", "a", "t", "c", "h", "?", "l", "i", "s", "t", "=", "x", "&", "v", "=">> \o id \o <<"&", "t", "=", "1">>,
     <<"/", "/", "y", "o", "u", "t", "u", "b", "e", ".", "c", "o", "m", "/", "w", "a", "t", "c", "h", "?", "f", "e", "a", "t", "u", "r", "e", "=", "s", "h", "a", "r", "e", "&", "v", "=">> \o id \o <<"#", "t", "o", "p">>}

\* URLs in which two forms occur.
TwoFormUrls ==
    {<<"h", "t", "t", "p", "s", ":", "/", "/", "y", "o", "u", "t", "u", ".", "b", "e", "/">> \o IdA \o <<"?", "f", "e", "a", "t", "u", "r", "e", "=", "y", "o", "u", "t", "u", "b", "e", ".", "c", "o", "m", "/", "w", "a", "t", "c", "h", "?", "v", "=">> \o IdB,
     <<"h", "t", "t", "p", "s", ":", "/", "/", "w", "w", "w", ".", "y", "o", "u", "t", "u", "b", "e", ".", "c", "o", "m", "/", "e", "m", "b", "e", "d", "/">> \o IdA \o <<"?", "v", "=">> \o IdB,
     <<"h", "t", "t", "p", "s", ":", "/", "/", "w", "w", "w", ".", "y", "o", "u", "t", "u", "b", "e", ".", "c", "o", "m", "/", "w", "a", "t", "c", "h", "?", "v", "=">> \o IdA \o <<"&", "v", "=">> \o IdB,
     <<"h", "t", "t", "p", "s", ":", "/", "/", "w", "w", "w", ".", "y", "o", "u", "t", "u", "b", "e", ".", "c", "o", "m", "/", "v", "/">> \o IdA \o <<"?", "u", "=", "y", "o", "u", "t", "u", ".", "b", "e", "/">> \o IdB,
     <<"h", "t", "t", "p", "s", ":", "/", "/", "w", "w", "w", ".", "y", "o", "u", "t", "u", "b", "e", ".", "c", "o", "m", "/", "w", "a", "t", "c", "h", "?", "v", "=">> \o IdA \o <<"&", "l", "i", "s", "t", "=", "y", "o", "u", "t", "u", "b", "e", ".", "c", "o", "m", "/", "e", "m", "b", "e", "d", "/">> \o IdA}

\* Strings that hold no identifier: no form, an identifier that is too short
\* or has a character outside the class, a v parameter of another site.
NoIdUrls ==
    {<<>>, <<" ", " ", " ">>, <<"h", "t", "t", "p", "s", ":", "/", "/", "e", "x", "a", "m", "p", "l", "e", ".", "c", "o", "m", "/", "x">>, <<"h", "t", "t", "p", "s", ":", "/", "/", "y", "o", "u", "t", "u", ".", "b", "e", "/", "d", "Q", "w", "4", "w", "9", "W", "g", "X", "c">>, <<"h", "t", "t", "p", "s", ":", "/", "/", "w", "w", "w", ".", "y", "o", "u", "t", "u", "b", "e", ".", "c", "o", "m", "/", "w", "a", "t", "c", "h", "?", "v", "=", "d", "Q", "w", "4", "w", "9", "W", "g", "X", "c", "!">>, <<"h", "t", "t", "p", "s", ":", "/", "/", "w", "w", "w", ".", "y", "o", "u", "t", "u", "b", "e", ".", "c", "o", "m", "/", "p", "l", "a", "y", "l", "i", "s", "t", "?", "l", "i", "s", "t", "=", "P", "L", "x">>, <<"h", "t", "t", "p", "s", ":", "/", "/", "w", "w", "w", ".", "y", "o", "u", "t", "u", "b", "e", ".", "c", "o", "m", "/", "w", "a", "t", "c", "h", "?", "t", "=", "1">>, <<"y", "o", "u", "t", "u", "b", "e">>, <<"h", "t", "t", "p", "s", ":", "/", "/", "v", "i", "m", "e", "o", ".", "c", "o", "m", "/", "w", "a", "t", "c", "h", "?", "v", "=", "d", "Q", "w", "4", "w", "9", "W", "g", "X", "c", "Q">>, <<"h", "t", "t", "p", "s", ":", "/", "/", "w", "w", "w", ".", "y", "o", "u", "t", "u", "b", "e", ".", "c", "o", "m", "/", "r", "e", "s", "u", "l", "t", "s", "?", "v", "=", "a", "b", "c", "&", "q", "=", "x">>}

UrlInputs ==
    {NotAStr}
    \cup {Str(u) : u \in UNION {FormUrls(id) \cup DecoratedUrls(id) \cup FallbackUrls(id) : id \in UrlIds}
                          \cup TwoFormUrls \cup NoIdUrls}

\* The orders the list of patterns can be written in.
PatternOrders ==
    {[i \in DOMAIN YOUTUBE_PATTERNS |-> YOUTUBE_PATTERNS[p[i]]] :
        p \in {q \in [DOMAIN YOUTUBE_PATTERNS -> DOMAIN YOUTUBE_PATTERNS] :
                 \A i, j \in DOMAIN YOUTUBE_PATTERNS : q[i] = q[j] => i = j}}

\* What a call returned (value) or that it raised InvalidURLError.
Returns(fn, value) == [fn |-> fn, raised |-> FALSE, value |-> value, order |-> YOUTUBE_PATTERNS]

Raises(fn) == [fn |-> fn, raised |-> TRUE, value |-> None, order |-> YOUTUBE_PATTERNS]

InitUrl ==
    /\ arg \in UrlInputs
    /\ ret = <<>>
    /\ config = DEFAULT_CONFIG
    /\ DownloadNotCalled

\* What a call leaves: the value it returns, or the exception where the model
\* writes None for the raise.
Outcome(fn, value) == IF value = None THEN Raises(fn) ELSE Returns(fn, value)

\* URLManager.extract_video_id(arg)
CallExtractVideoId ==
    /\ ret = <<>>
    /\ ret' = Outcome("extract_video_id", extract_video_id(arg))
    /\ UNCHANGED <<arg, config>>
    /\ DownloadIdle

\* URLManager.extract_video_id(arg) with YOUTUBE_PATTERNS written in another
\* order.
CallExtractVideoIdReordered ==
    /\ ret = <<>>
    /\ \E order \in PatternOrders :
        ret' = [Outcome("extract_video_id", ExtractWithPatterns(order, arg))
                EXCEPT !.order = order]
    /\ UNCHANGED <<arg, config>>
    /\ DownloadIdle

\* URLManager.validate_url(arg)
CallValidateUrl ==
    /\ ret = <<>>
    /\ ret' = Returns("validate_url", validate_url(arg))
    /\ UNCHANGED <<arg, config>>
    /\ DownloadIdle

\* URLManager.normalize_url(arg)
CallNormalizeUrl ==
    /\ ret = <<>>
    /\ ret' = Outcome("normalize_url", normalize_url(arg))
    /\ UNCHANGED <<arg, config>>
    /\ DownloadIdle

NextUrl ==
    \/ CallExtractVideoId
    \/ CallExtractVideoIdReordered
    \/ CallValidateUrl
    \/ CallNormalizeUrl

SpecUrl == InitUrl /\ [][NextUrl]_vars

\* Titles the probe can report: plain, with illegal characters, blank, made
\* of illegal characters only, long, already a clean stem, empty.
FilenameTitles ==
    {<<"S", "o", "n", "g">>,
     <<"M", "r", ".", " ", "X">>,
     <<"a", "/", "b", ":", " ", "c", "?", "*">>,
     <<" ", " ", " ">>,
     <<"?", "?", "?">>,
     <<"A", " ", "V", "e", "r", "y", " ", "L", "o", "n", "g", " ", "T", "i", "t", "l", "e", " ", "O", "f", " ", "A", " ", "S", "o", "n", "g", " ", "2", "0", "2", "4">>,
     <<"A", "l", "r", "e", "a", "d", "y", "_", "C", "l", "e", "a", "n", "-", "0", "1">>,
     <<>>,
     <<" ", "\t", "T", "a", "b", "s", "\n", " ", "a", "n", "d", " ", " ", "g", "a", "p", "s", " ">>}

\* Values of max_filename_length, which config.py does not validate: below,
\* at and above the margin of line 68, and the default.
FilenameLengths == {10, TRUNCATION_MARGIN - 1, TRUNCATION_MARGIN, 20, MAX_FILENAME_LENGTH}

InitFilename ==
    /\ arg \in [title : FilenameTitles, video_id : UrlIds]
    /\ ret = <<>>
    /\ config \in {[DEFAULT_CONFIG EXCEPT !.max_filename_length = n] : n \in FilenameLengths}
    /\ DownloadNotCalled

\* FilesystemManager._clean_filename(arg.title, arg.video_id)
CallCleanFilename ==
    /\ ret = <<>>
    /\ ret' = Returns("_clean_filename",
                      clean_filename(arg.title, arg.video_id, config.max_filename_length))
    /\ UNCHANGED <<arg, config>>
    /\ DownloadIdle

SpecFilename == InitFilename /\ [][CallCleanFilename]_vars

\* ------------------------------------------------------------------------
\* Two invocations of download on one Downloader, interleaved
\* ------------------------------------------------------------------------

\* The locals of one invocation of download, at its first line.
FirstLine ==
    [pc |-> "resolve", video_id |-> None, normalized_url |-> None, metadata |-> NoMetadata,
     output_dir |-> None, base_output_path |-> None, verification |-> NoVerification,
     attempt |-> 0, last_error |-> NoErr, exc |-> NoErr, result |-> NoResult,
     raised |-> NoErr]

\* Downloader.download, lines 81-88: the resolver and the probe.  call is the
\* URL, the metadata the probe returns and what the engine does in an attempt.
ResolveAndProbe(call, l) ==
    IF l.pc = "resolve"
    THEN IF extract_video_id(call.url) = None
         THEN [l EXCEPT !.exc = InvalidURLError(call.url), !.pc = "except"]
         ELSE [l EXCEPT !.video_id = extract_video_id(call.url),
                        !.normalized_url = normalize_url(call.url), !.pc = "probe"]
    ELSE [l EXCEPT !.metadata = call.probe, !.exc = ProbeError(call.probe),
                   !.pc = IF ProbeError(call.probe) # NoErr THEN "except" ELSE "plan"]

\* Line 103: one iteration of the loop of download_video, or its end (the
\* sleeps of lines 35-37 change nothing on disk).
AttemptOrEnd(cfg, call, l, filesystem) ==
    IF ~InRange(cfg, l.attempt)
    THEN [l  |-> [l EXCEPT !.exc = handle_final_error(l.last_error), !.pc = "except"],
          fs |-> filesystem]
    ELSE LET run  == execute_download(cfg, filesystem, l.base_output_path,
                                      call.engine.info, call.engine.dl)
             last == NextLastError(l.last_error, run.err)
         IN  [fs |-> run.fs,
              l  |-> IF run.err = NoErr THEN [l EXCEPT !.pc = "verify"]
                     ELSE IF IsPermanent(run.err)
                     THEN [l EXCEPT !.exc = run.err, !.pc = "except"]
                     ELSE IF RetryAgain(cfg, l.attempt)
                     THEN [l EXCEPT !.last_error = last, !.attempt = @ + 1]
                     ELSE [l EXCEPT !.last_error = last, !.exc = handle_final_error(last),
                                    !.pc = "except"]]

\* Lines 105-119: the verification and the call of save_metadata_file.
VerifyAndSave(cfg, l, filesystem) ==
    IF l.pc = "verify"
    THEN LET v == verify_download_results(cfg, filesystem, l.base_output_path)
         IN  IF v.success THEN [l EXCEPT !.verification = v, !.pc = "save_metadata"]
             ELSE [l EXCEPT !.verification = v, !.pc = "except",
                            !.exc = Err("DownloadFailedError",
                                        "Download verification failed - expected files not found",
                                        <<>>)]
    ELSE IF "save_metadata_file" \in FilesystemManagerMethods
    THEN [l EXCEPT !.pc = "done",
                   !.result = success_result(l.video_id, Str(l.normalized_url),
                                             l.verification.audio_file,
                                             l.verification.subtitle_files, l.metadata)]
    ELSE [l EXCEPT !.exc = AttributeError("save_metadata_file"), !.pc = "except"]

\* Lines 121-142: the except clauses.
Except(call, l, filesystem) ==
    [fs |-> IF l.base_output_path # None
            THEN cleanup_failed_download(filesystem, l.base_output_path, {})
            ELSE filesystem,
     l  |-> IF l.output_dir # None /\ "remove_video_subdirectory" \notin FilesystemManagerMethods
            THEN [l EXCEPT !.raised = AttributeError("remove_video_subdirectory"), !.pc = "done"]
            ELSE [l EXCEPT !.pc = "done",
                           !.result = error_result(
                               IF l.video_id # None THEN l.video_id ELSE UNKNOWN_ID, call.url,
                               [prefix |-> IF l.exc.cls \in KnownErrors THEN ""
                                           ELSE "Unexpected error: ",
                                err    |-> l.exc])]]

\* One step of Downloader.download (lines 71-142) from the locals l on the
\* filesystem: the locals and the filesystem after it.
DownloadStep(cfg, call, l, filesystem) ==
    CASE l.pc \in {"resolve", "probe"} ->
            [l |-> ResolveAndProbe(call, l), fs |-> filesystem]
      [] l.pc = "plan" ->
            [fs |-> Mkdir(filesystem, OutputDir(cfg, l.video_id)),
             l  |-> [l EXCEPT !.output_dir = OutputDir(cfg, l.video_id),
                              !.base_output_path =
                                  BaseOutputPath(cfg, l.video_id, l.metadata.title),
                              !.pc = "check"]]
      [] l.pc = "check" ->
            [fs |-> filesystem,
             l  |-> IF check_existing_files(cfg, filesystem, l.base_output_path).should_skip
                    THEN [l EXCEPT !.pc = "done",
                                   !.result = skipped_result(l.video_id, Str(l.normalized_url),
                                                             SKIP_REASON)]
                    ELSE [l EXCEPT !.pc = "download"]]
      [] l.pc = "download" -> AttemptOrEnd(cfg, call, l, filesystem)
      [] l.pc \in {"verify", "save_metadata"} ->
            [l |-> VerifyAndSave(cfg, l, filesystem), fs |-> filesystem]
      [] l.pc = "except" -> Except(call, l, filesystem)

RECURSIVE RunAlone(_, _, _, _)
\* download run from l to its end with nothing else touching the filesystem.
RunAlone(cfg, call, l, filesystem) ==
    IF l.pc = "done" THEN [l |-> l, fs |-> filesystem]
    ELSE LET next == DownloadStep(cfg, call, l, filesystem)
         IN  RunAlone(cfg, call, next.l, next.fs)

\* The two invocations.
Invocations == {1, 2}

PairTitles == {<<"M", "r">>, <<"M", "r", ".", " ", "X">>, <<"S", "o", "n", "g">>}

\* What the engine does in every attempt of an invocation: it downloads the
\* audio, times out leaving a partial file, or reports the video private.
PairEngines ==
    {[info |-> InfoReturns("value", HIGH), dl |-> DlReturns(TRUE)],
     [info |-> InfoReturns("value", HIGH), dl |-> DlRaises("DownloadError", MsgTimeout)],
     [info |-> InfoRaises("DownloadError", MsgPrivate), dl |-> DlReturns(FALSE)]}

PairCalls(url) ==
    [url : {Str(url)}, probe : {Metadata(t) : t \in PairTitles}, engine : PairEngines]

\* The base path prepare_download_paths plans for a call.
PlannedBase(cfg, call) ==
    BaseOutputPath(cfg, extract_video_id(call.url), call.probe.title)

\* Two calls for different identifiers whose planned base paths differ, on a
\* Downloader with or without per-video subdirectories and a bare disk.
InitPair ==
    /\ config \in {[DEFAULT_CONFIG EXCEPT !.create_video_subdirectory = sub] : sub \in BOOLEAN}
    /\ \E c1 \in PairCalls(UrlShort), c2 \in PairCalls(SHORT_LITERAL \o IdB) :
        /\ PlannedBase(config, c1) # PlannedBase(config, c2)
        /\ arg = <<c1, c2>>
    /\ ret = [p \in Invocations |-> FirstLine]
    /\ DownloadNotCalled

\* Invocation p runs its next step.
PairStep(p) ==
    /\ ret[p].pc # "done"
    /\ \E next \in {DownloadStep(config, arg[p], ret[p], fs)} :
        /\ ret' = [ret EXCEPT ![p] = next.l]
        /\ fs' = next.fs
    /\ UNCHANGED <<arg, config, fs_before>>
    /\ LocalsIdle

NextPair == \E p \in Invocations : PairStep(p)

SpecPair == InitPair /\ [][NextPair]_vars

\* Titles the probe can report for two videos: none, the same plain title
\* for both, a dotted one and one long enough to be truncated.
PathTitles ==
    {<<>>,
     TitleSong,
     TitleDotted,
     <<"A", " ", "V", "e", "r", "y", " ", "L", "o", "n", "g", " ", "T", "i", "t", "l", "e", " ", "O", "f", " ", "A", " ", "S", "o", "n", "g", " ", "2", "0", "2", "4">>}

\* What prepare_download_paths leaves: the tuple it returns, or the
\* FileSystemError of lines 49-53.
Planned(dir, base) == [raised |-> FALSE, output_dir |-> dir, base_output_path |-> base]

NotPlanned == [raised |-> TRUE, output_dir |-> None, base_output_path |-> None]

\* Two videos with different identifiers and any titles, under every setting
\* of create_video_subdirectory and clean_filename, with a max_filename_length
\* that truncates the long title and with the default; the disk is bare.
InitPaths ==
    /\ config \in {[DEFAULT_CONFIG EXCEPT !.create_video_subdirectory = sub,
                                          !.clean_filename = clean,
                                          !.max_filename_length = n] :
                      sub \in BOOLEAN, clean \in BOOLEAN, n \in {20, MAX_FILENAME_LENGTH}}
    /\ \E c1 \in [video_id : UrlIds, title : PathTitles],
          c2 \in [video_id : UrlIds, title : PathTitles] :
        /\ c1.video_id # c2.video_id
        /\ arg = <<c1, c2>>
    /\ ret = [p \in Invocations |-> None]
    /\ DownloadNotCalled

\* FilesystemManager.prepare_download_paths(arg[p].video_id, arg[p].title):
\* mkdir creates the directory and the paths are returned, or mkdir raises and
\* FileSystemError is raised.
CallPrepareDownloadPaths(p) ==
    /\ ret[p] = None
    /\ \E mkdir_ok \in BOOLEAN :
        IF mkdir_ok
        THEN /\ fs' = Mkdir(fs, OutputDir(config, arg[p].video_id))
             /\ ret' = [ret EXCEPT ![p] =
                           Planned(OutputDir(config, arg[p].video_id),
                                   BaseOutputPath(config, arg[p].video_id, arg[p].title))]
        ELSE /\ ret' = [ret EXCEPT ![p] = NotPlanned]
             /\ UNCHANGED fs
    /\ UNCHANGED <<arg, config, fs_before>>
    /\ LocalsIdle

NextPaths == \E p \in Invocations : CallPrepareDownloadPaths(p)

SpecPaths == InitPaths /\ [][NextPaths]_vars

\* ------------------------------------------------------------------------
\* Properties
\* ------------------------------------------------------------------------

AttemptIdx == {i \in DOMAIN events : events[i].kind = "attempt"}

SleepIdx == {i \in DOMAIN events : events[i].kind = "sleep"}

ProbeIdx == {i \in DOMAIN events : events[i].kind = "probe"}

\* download has returned or raised.
Returned == pc = "done"

\* download_video has raised, or download went on from its failure.
Failed(err) == err # NoErr

Retryable(err) == Failed(err) /\ err.cls \notin {"VideoUnavailableError", "LowQualityError"}

\* C1: whatever the URL, the engine and the disk do, download returns a
\* DownloadResult whose status is success, error or skipped, and no exception
\* leaves it.
C1_AlwaysReturnsResult ==
    Returned => /\ raised = NoErr
                /\ result.status \in {"success", "error", "skipped"}

\* C2: one call of download_video runs _execute_download at most
\* max_retries + 1 times, and every sleep comes right before an attempt
\* n >= 1, so none comes before the first attempt.
C2_AttemptsBoundedSleepOnlyBeforeRetry ==
    /\ Cardinality(AttemptIdx) <= config.max_retries + 1
    /\ \A i \in SleepIdx :
        /\ i < Len(events)
        /\ events[i + 1].kind = "attempt"
        /\ events[i + 1].n >= 1
        /\ \E j \in AttemptIdx : j < i

C2_Witness ==
    /\ config.max_retries >= 2
    /\ Cardinality(AttemptIdx) = config.max_retries + 1
    /\ Cardinality(SleepIdx) = config.max_retries

\* C3: an attempt that fails with VideoUnavailableError or LowQualityError
\* is the last event of the retry loop (no sleep, no attempt after it) and its
\* error is the one download_video raises; an engine failure saying "private"
\* on the first attempt is classified VideoUnavailableError and leaves exactly
\* one attempt.
C3_PermanentFailureEndsLoop ==
    \A i \in AttemptIdx :
        /\ events[i].err.cls \in {"VideoUnavailableError", "LowQualityError"}
            => /\ i = Len(events)
               /\ pc \in {"except", "done"}
               /\ exc = events[i].err
        /\ ( /\ events[i].n = 0
             /\ events[i].err.fmt \in {"Video unavailable: {e}", "Network error: {e}",
                                       "Download failed: {e}"}
             /\ Contains(Lower(events[i].err.arg), <<"p", "r", "i", "v", "a", "t", "e">>) )
            => /\ events[i].err.cls = "VideoUnavailableError"
               /\ Cardinality(AttemptIdx) = 1

C3_Witness ==
    /\ Returned
    /\ config.max_retries >= 1
    /\ Cardinality(AttemptIdx) = 1
    /\ events[Len(events)].err.cls = "VideoUnavailableError"
    /\ events[Len(events)].err.arg = MsgPrivate
    /\ exc = events[Len(events)].err

\* C4: after attempt n fails with a retryable error and n < max_retries, the
\* next events are a sleep of retry_delay_seconds * (n + 1) and attempt n + 1
\* (or the loop stands at attempt n + 1, about to run them); the delays never
\* decrease; after a retryable failure of attempt n = max_retries nothing
\* more is attempted and download_video has raised.
C4_LinearBackoff ==
    /\ \A i \in AttemptIdx :
        Retryable(events[i].err) =>
            IF events[i].n < config.max_retries
            THEN IF i = Len(events)
                 THEN pc = "download" /\ attempt = events[i].n + 1
                 ELSE /\ i + 2 <= Len(events)
                      /\ events[i + 1].kind = "sleep"
                      /\ events[i + 1].n = config.retry_delay_seconds * (events[i].n + 1)
                      /\ events[i + 2].kind = "attempt"
                      /\ events[i + 2].n = events[i].n + 1
            ELSE /\ i = Len(events)
                 /\ pc \in {"except", "done"}
                 /\ Failed(exc)
    /\ \A i, j \in SleepIdx : i < j => events[i].n <= events[j].n

C4_Witness ==
    /\ Cardinality(SleepIdx) >= 2
    /\ \E i, j \in SleepIdx :
        /\ i < j
        /\ events[i].n = config.retry_delay_seconds
        /\ events[j].n = 2 * config.retry_delay_seconds
    /\ Retryable(events[Len(events)].err)
    /\ Returned

\* All max_retries + 1 attempts were made and each failed with a retryable
\* error.
Exhausted ==
    /\ config.max_retries >= 0
    /\ Cardinality(AttemptIdx) = config.max_retries + 1
    /\ \A i \in AttemptIdx : Retryable(events[i].err)

\* C5: when every one of the max_retries + 1 attempts failed with a retryable
\* error, download_video raises the error of the last attempt, class and
\* message unchanged.
C5_LastErrorSurfaces ==
    Exhausted =>
        /\ pc \in {"except", "done"}
        /\ exc = events[Len(events)].err
        /\ exc.cls \in {"NetworkError", "DownloadFailedError"}

C5_Witness ==
    /\ Exhausted
    /\ Returned
    /\ config.max_retries >= 1
    /\ exc.cls = "NetworkError"
    /\ \E i \in AttemptIdx : events[i].err.cls = "DownloadFailedError"

\* The attempts before the last failed with a timeout the engine reported, and
\* the last one, the final one allowed, succeeded.
TimeoutsThenSuccess ==
    /\ config.max_retries >= 1
    /\ Cardinality(AttemptIdx) = config.max_retries + 1
    /\ \A i \in AttemptIdx :
        IF events[i].n < config.max_retries
        THEN events[i].err = Err("NetworkError", "Network error: {e}", MsgTimeout)
        ELSE events[i].err = NoErr

\* C6: timeouts on the first max_retries attempts, success on the last, and
\* the audio file found by the verification: download returns a success
\* result with the verified audio path, the subtitle paths and the metadata.
C6_SuccessAfterTimeouts ==
    (Returned /\ TimeoutsThenSuccess /\ verification.success) =>
        /\ raised = NoErr
        /\ result.status = "success"
        /\ result.audio_file_path = verification.audio_file
        /\ result.subtitle_files = verification.subtitle_files
        /\ result.metadata.present

\* The audio file the plan of this invocation expects, for the title the
\* probe gave (none when the probe returned None).
ExpectedAudio == AudioPath(config, BaseOutputPath(config, video_id, metadata.title))

PartialFiles(filesystem) ==
    {f \in filesystem.files :
        /\ Parent(f) = Parent(base_output_path)
        /\ \/ FnMatch(Name(f), Name(base_output_path) \o <<".", "*">>)
           \/ FnMatch(Name(f), Name(base_output_path) \o <<".", "p", "a", "r", "t", "*">>)
           \/ FnMatch(Name(f), Name(base_output_path) \o <<".", "t", "e", "m", "p", "*">>)}

\* Nothing is in the directory.
IsEmptyDir(filesystem, dir) ==
    \A p \in filesystem.files \cup filesystem.dirs : Len(p) = 0 \/ Parent(p) # dir

\* C8: when error handling runs after the per-video subdirectory was created
\* and partial files were written, download leaves none of the partial files
\* and, if the subdirectory is then empty, removes the subdirectory.
C8_FailureLeavesNoPartialFiles ==
    [][ ( /\ pc = "except"
          /\ pc' = "done"
          /\ config.create_video_subdirectory
          /\ output_dir # None
          /\ PartialFiles(fs) \ fs_before.files # {} ) =>
            /\ PartialFiles(fs') \ fs_before.files = {}
            /\ IsEmptyDir(fs', output_dir) => output_dir \notin fs'.dirs ]_vars

\* C9: when a failure sent download into error handling, download returns an
\* error result carrying the message of that failure, whatever the cleanup
\* steps do; no fault of a cleanup step leaves download or replaces the
\* message.
C9_CleanupNeverMasksFailure ==
    (Returned /\ Failed(exc)) =>
        /\ raised = NoErr
        /\ result.status = "error"
        /\ result.error_message.err = exc

InvalidUrls == {Str(UrlOther), Str(<<>>), NotAStr}

\* C11: when the URL is invalid (extract_video_id raises InvalidURLError),
\* download returns an error Result with that error, the filesystem is what
\* it was at the call, the engine was never invoked, and no path was planned,
\* so the handler ran neither the cleanup nor the directory removal.
C11_InvalidUrlNoSideEffects ==
    (Returned /\ (video_url \in InvalidUrls \/ exc.cls = "InvalidURLError"))
        => /\ exc = InvalidURLError(video_url)
           /\ raised = NoErr
           /\ result = error_result(UNKNOWN_ID, video_url, [prefix |-> "", err |-> exc])
           /\ fs = fs_before
           /\ events = <<>>
           /\ output_dir = None
           /\ base_output_path = None

C11_Witness ==
    /\ Returned
    /\ video_url = Str(UrlOther)
    /\ result.status = "error"
    /\ fs_before.files # {}

\* The engine's bitrate estimate is a number below the configured floor.
EstimateBelowFloor(cfg, info) ==
    /\ info.kind = "info"
    /\ info.abr_key = "value"
    /\ info.abr < cfg.min_audio_quality

\* C12: with min_audio_quality > 0, an attempt whose pre-download estimate is
\* below the floor fails with LowQualityError before process_ie_result runs:
\* whatever the download step would have done, nothing was downloaded and the
\* filesystem is untouched; and a first attempt that ended in LowQualityError
\* has left no file on disk.
C12_QualityFloorBeforeDownload ==
    /\ (pc = "download" /\ config.min_audio_quality > 0)
        => \A e1 \in EngineOutcomes, e2 \in EngineOutcomes :
              EstimateBelowFloor(config, e1.info)
                => LET run == execute_download(config, fs, base_output_path, e1.info, e2.dl)
                   IN  /\ run.err.cls = "LowQualityError"
                       /\ ~run.downloaded
                       /\ run.fs = fs
    /\ \A i \in AttemptIdx :
          (events[i].err.cls = "LowQualityError" /\ events[i].n = 0)
            => /\ config.min_audio_quality > 0
               /\ fs.files = fs_before.files

C12_Witness ==
    /\ Returned
    /\ config.min_audio_quality = MEDIUM
    /\ Cardinality(AttemptIdx) = 1
    /\ events[Len(events)].err.cls = "LowQualityError"
    /\ fs.files = {}
    /\ \E e \in EngineOutcomes : EstimateBelowFloor(config, e.info)

AVAILABILITY_WORDS == {<<"p", "r", "i", "v", "a", "t", "e">>, <<"u", "n", "a", "v", "a", "i", "l", "a", "b", "l", "e">>, <<"d", "e", "l", "e", "t", "e", "d">>, <<"r", "e", "m", "o", "v", "e", "d">>}

CONNECTIVITY_WORDS == {<<"n", "e", "t", "w", "o", "r", "k">>, <<"c", "o", "n", "n", "e", "c", "t", "i", "o", "n">>, <<"t", "i", "m", "e", "o", "u", "t">>}

Mentions(msg, words) == \E w \in words : Contains(Lower(msg), w)

\* C13: every engine failure of a download attempt gets exactly one class from
\* its lower-cased description: VideoUnavailableError (not retried) when it
\* mentions private, unavailable, deleted or removed; otherwise NetworkError
\* (retried) when it mentions network, connection or timeout; otherwise
\* DownloadFailedError (retried); and every attempt of one call gives the same
\* description the same class.
C13_ClassificationTotalExclusive ==
    \A i \in DOMAIN ret :
        /\ ret[i].cls \in {"VideoUnavailableError", "NetworkError", "DownloadFailedError"}
        /\ ret[i].cls = "VideoUnavailableError" <=> Mentions(arg, AVAILABILITY_WORDS)
        /\ ret[i].cls = "NetworkError"
            <=> (Mentions(arg, CONNECTIVITY_WORDS) /\ ~Mentions(arg, AVAILABILITY_WORDS))
        /\ ret[i].cls = "DownloadFailedError"
            <=> (~Mentions(arg, CONNECTIVITY_WORDS) /\ ~Mentions(arg, AVAILABILITY_WORDS))
        /\ IsPermanent(ret[i]) <=> ret[i].cls = "VideoUnavailableError"
        /\ ret[i].arg = arg
        /\ ret[i] = ret[1]

C13_Witness ==
    /\ Len(ret) > 1
    /\ Mentions(arg, CONNECTIVITY_WORDS)
    /\ Mentions(arg, AVAILABILITY_WORDS)
    /\ arg # Lower(arg)
    /\ ret[Len(ret)].cls = "VideoUnavailableError"

Called(fn) == ret # <<>> /\ ret.fn = fn

CANONICAL_WATCH == <<"h", "t", "t", "p", "s", ":", "/", "/", "w", "w", "w", ".", "y", "o", "u", "t", "u", "b", "e", ".", "c", "o", "m", "/", "w", "a", "t", "c", "h", "?", "v", "=">>

\* C14: for an 11-character identifier, normalize_url of its watch, short-link,
\* embed and legacy form (scheme and www. present or not) is
\* https://www.youtube.com/watch?v=<identifier>, and normalize_url of that
\* canonical URL is the canonical URL itself.
C14_NormalizeEquivalence ==
    Called("normalize_url")
        => \A id \in UrlIds :
            /\ arg.s \in FormUrls(id)
                => /\ ~ret.raised
                   /\ ret.value = CANONICAL_WATCH \o id
            /\ arg.s = CANONICAL_WATCH \o id
                => /\ ~ret.raised
                   /\ ret.value = arg.s

C14_Witness ==
    /\ Called("normalize_url")
    /\ arg = Str(<<"y", "o", "u", "t", "u", "b", "e", ".", "c", "o", "m", "/", "v", "/">> \o IdB)
    /\ ret.value = CANONICAL_WATCH \o IdB

\* One of the four URL forms occurs in s: its literal followed by 11
\* characters of [A-Za-z0-9_-].
RecognizedForm(s) ==
    \E lit \in {<<"y", "o", "u", "t", "u", "b", "e", ".", "c", "o", "m", "/", "w", "a", "t", "c", "h", "?", "v", "=">>, <<"y", "o", "u", "t", "u", ".", "b", "e", "/">>, <<"y", "o", "u", "t", "u", "b", "e", ".", "c", "o", "m", "/", "e", "m", "b", "e", "d", "/">>, <<"y", "o", "u", "t", "u", "b", "e", ".", "c", "o", "m", "/", "v", "/">>} :
        \E i \in 1..Len(s) :
            /\ StartsAt(s, i, lit)
            /\ i + Len(lit) + 10 <= Len(s)
            /\ \A k \in 0..10 : s[i + Len(lit) + k] \in IdChars

\* s has a query field named v.
HasVParam(s) == Contains(s, <<"?", "v", "=">>) \/ Contains(s, <<"&", "v", "=">>)

Unresolvable(url) ==
    \/ ~IsStr(url)
    \/ url.s = <<>>
    \/ (~RecognizedForm(url.s) /\ ~HasVParam(url.s))

\* C15: for an input that is empty, not a string, or a string with none of
\* the four forms and no v query parameter, extract_video_id raises
\* InvalidURLError and validate_url returns false; and an identifier that
\* extract_video_id returns is 11 characters of [A-Za-z0-9_-].
C15_InvalidInputsRejected ==
    /\ (Called("extract_video_id") /\ Unresolvable(arg)) => ret.raised
    /\ (Called("validate_url") /\ Unresolvable(arg)) => (~ret.raised /\ ret.value = FALSE)
    /\ (Called("extract_video_id") /\ ~ret.raised)
        => /\ Len(ret.value) = 11
           /\ \A k \in 1..Len(ret.value) : ret.value[k] \in IdChars

C15_Witness ==
    /\ Called("extract_video_id")
    /\ arg = Str(<<"h", "t", "t", "p", "s", ":", "/", "/", "y", "o", "u", "t", "u", ".", "b", "e", "/", "d", "Q", "w", "4", "w", "9", "W", "g", "X", "c">>)
    /\ Unresolvable(arg)
    /\ ret.raised

\* C20: the order of the patterns does not change what extract_video_id
\* returns: with the list in any order the call raises for the same inputs
\* and returns the same identifier as with the list as written.
C20_PatternOrderIrrelevant ==
    Called("extract_video_id")
        => /\ ret.raised <=> extract_video_id(arg) = None
           /\ ret.value = extract_video_id(arg)

\* The title with the illegal characters removed, the ends stripped and the
\* whitespace runs replaced: what _clean_filename has before it truncates.
Sanitized(title) == CollapseWhitespace(Strip(RemoveChars(title, IllegalChars)))

\* A stem that is already clean for a bound: not empty, no illegal character,
\* no whitespace, not longer than the bound.
CleanStem(stem, bound) ==
    /\ stem # <<>>
    /\ Len(stem) <= bound
    /\ \A k \in 1..Len(stem) : stem[k] \notin IllegalChars \cup Whitespace

\* C16: for every title, identifier and max_filename_length, _clean_filename
\* returns a stem no longer than max_filename_length; when it truncates, the
\* stem contains the identifier; an already-clean stem is returned unchanged.
C16_CleanFilenameBounded ==
    Called("_clean_filename")
        => /\ Len(ret.value) <= config.max_filename_length
           /\ Len(Sanitized(arg.title)) > config.max_filename_length
                => Contains(ret.value, arg.video_id)
           /\ CleanStem(arg.title, config.max_filename_length) => ret.value = arg.title

\* The file the engine's output template <base>.%(ext)s names for the audio.
EngineAudio == TemplatePath(base_output_path, config.audio_format)

VERIFY_FAILED == "Download verification failed - expected files not found"

\* C18: for every planned base path, a stem with a '.' in it included,
\* verify_download_results reports success iff <base path>.<audio_format>,
\* the file the engine writes, exists, and check_existing_files tests that
\* same file.
C18_VerifyNamesEngineFile ==
    /\ pc = "save_metadata"
        => (Exists(fs, EngineAudio) /\ verification.audio_file = EngineAudio)
    /\ (pc = "except" /\ exc.fmt = VERIFY_FAILED) => ~Exists(fs, EngineAudio)
    /\ pc = "check"
        => (check_existing_files(config, fs, base_output_path).audio # None
              <=> Exists(fs, EngineAudio))

\* The handler reached its call of remove_video_subdirectory(output_dir): that
\* call is the only place the model lets an exception leave download.
RemovalAttempted == Returned /\ raised # NoErr

\* C19: download attempts a directory removal only when it created a
\* per-video subdirectory (create_video_subdirectory is true) and the attempt
\* failed; with create_video_subdirectory false a failed invocation removes
\* neither the output root nor a directory under it.
C19_RemovalOnlyOfVideoSubdirectory ==
    /\ RemovalAttempted
        => /\ config.create_video_subdirectory
           /\ output_dir # config.output_directory
           /\ Failed(exc)
    /\ (Returned /\ ~config.create_video_subdirectory) => fs_before.dirs \subseteq fs.dirs

\* C17: two invocations of download for different identifiers with distinct
\* base paths, interleaved in any order, are independent: each ends as it
\* ends when run alone, and once both have ended the disk holds what the two
\* runs alone leave on it, so neither removed or changed anything of the
\* other.
C17_InvocationsIndependent ==
    LET alone(p) == RunAlone(config, arg[p], FirstLine, fs_before)
    IN  /\ \A p \in Invocations :
            ret[p].pc = "done"
                => /\ ret[p].result = alone(p).l.result
                   /\ ret[p].raised = alone(p).l.raised
        /\ (\A p \in Invocations : ret[p].pc = "done")
            => /\ fs.files = UNION {alone(p).fs.files : p \in Invocations}
               /\ fs.dirs = UNION {alone(p).fs.dirs : p \in Invocations}

\* Both videos of the pair have their paths planned.
BothPlanned == \A p \in Invocations : ret[p] # None /\ ~ret[p].raised

\* C21: for every setting of create_video_subdirectory and clean_filename and
\* any titles, two different identifiers are planned to different base paths,
\* and so to different audio files: neither the file check_existing_files
\* looks for nor the file the engine writes is shared by the two.
C21_PathsCollisionSafe ==
    (BothPlanned /\ arg[1].video_id # arg[2].video_id)
        => /\ ret[1].base_output_path # ret[2].base_output_path
           /\ AudioPath(config, ret[1].base_output_path)
                  # AudioPath(config, ret[2].base_output_path)
           /\ TemplatePath(ret[1].base_output_path, config.audio_format)
                  # TemplatePath(ret[2].base_output_path, config.audio_format)

\* The canonical URL of the identifier this invocation extracted.
CanonicalUrl == CANONICAL_WATCH \o video_id

\* C22: within one invocation of download, every call into the engine, the
\* metadata probe and every download attempt, is made with the canonical URL
\* derived from the identifier, never with the raw input URL.
C22_EngineGetsCanonicalUrl ==
    \A i \in ProbeIdx \cup AttemptIdx : events[i].url = CanonicalUrl

\* An except clause ran with base_output_path set: line 127 or 137 called
\* cleanup_failed_download.
CleanupReached == Returned /\ Failed(exc) /\ base_output_path # None

\* C23: once verify_download_results has reported success, no later step of
\* the invocation runs the failure cleanup or removes the verified audio
\* file: cleanup_failed_download and the directory removal are reached only
\* where the download or its verification failed.
C23_NoCleanupAfterVerifiedSuccess ==
    /\ (CleanupReached \/ RemovalAttempted) => ~verification.success
    /\ verification.success => IsFile(fs, verification.audio_file)

\* download_video raises in this step: the exception reaches download's
\* handlers.
DownloadVideoRaises == pc = "download" /\ pc' = "except"

\* download_video returns in this step.
DownloadVideoReturns == pc = "download" /\ pc' = "verify"

\* C24: for every max_retries, 0 and negative values included, download_video
\* makes at least one attempt before it can fail: what it raises is an error
\* observed on an attempt, and when it returns, it returns the result of an
\* attempt that succeeded.
C24_AttemptBeforeFailure ==
    [][/\ DownloadVideoRaises
           => \E i \in {j \in DOMAIN events' : events'[j].kind = "attempt"} :
                 events'[i].n >= 0 /\ events'[i].err = exc'
       /\ DownloadVideoReturns
           => /\ events'[Len(events')].kind = "attempt"
              /\ events'[Len(events')].err = NoErr]_vars

\* The engine reported a bitrate estimate that is a number at or above the
\* configured floor.
EstimateMeetsFloor(cfg, info) ==
    /\ info.kind = "info"
    /\ info.abr_key = "value"
    /\ info.abr >= cfg.min_audio_quality

\* C25: with min_audio_quality > 0, an attempt reaches the engine's download
\* step only if the pre-download estimate is known and at least
\* min_audio_quality; a missing or a null estimate does not get past the
\* quality floor.
C25_DownloadOnlyWithKnownEstimate ==
    (pc = "download" /\ InRange(config, attempt) /\ config.min_audio_quality > 0)
        => \A e \in EngineOutcomes :
              execute_download(config, fs, base_output_path, e.info, e.dl).downloaded
                => EstimateMeetsFloor(config, e.info)

====
